---- MODULE Spec2Model ----
(***************************************************************************)
(* Flutter Version Checker & Auto-Increment action (src/src/index.js,      *)
(* lines 1-583: the token-free revision that action.yml runs).            *)
(*                                                                         *)
(* A version text is a sequence of one-character strings, so that parsing, *)
(* formatting and text equality are computed as the JavaScript computes    *)
(* them.  One run of the action is a sequence of steps: read the manifest, *)
(* enumerate the commits, scan them one by one, decide, write the          *)
(* manifest, and the git steps of commitAndPush.                           *)
(***************************************************************************)
EXTENDS Integers, Sequences, FiniteSets, TLC

(* ------------------------------------------------------------------ *)
(* Bounds of the model                                                 *)
(* ------------------------------------------------------------------ *)

\* Longest commit history the history provider holds in the model.
MaxHist == 3

(* ------------------------------------------------------------------ *)
(* JavaScript values and text helpers                                  *)
(* ------------------------------------------------------------------ *)

\* JavaScript null / undefined where a text is expected (the code tests both
\* with !x).  A text is a sequence of one-character strings, so this
\* one-element sequence is no text.
Null == <<"null">>

\* A commit whose pubspec.yaml cannot be shown, is not YAML, or has no
\* version field.
Absent == <<"absent">>

\* JavaScript NaN, the result of parseInt on text with no leading digits.
\* Texts here are made of digits, '.', '+' and letters, so no parse yields a
\* negative number and -1 is free to stand for NaN.
NaN == -1

\* semver.compare threw TypeError("Invalid Version"): the value 2 stands for
\* the exception, which compareVersions lets through to its caller.
Throw == 2

Digits == <<"0", "1", "2", "3", "4", "5", "6", "7", "8", "9">>

IsDigit(c) == \E i \in DOMAIN Digits : Digits[i] = c

DigitVal(c) == (CHOOSE i \in DOMAIN Digits : Digits[i] = c) - 1

\* String.prototype.split(sep) for a one-character separator.
RECURSIVE Split(_, _)
Split(s, sep) ==
    IF \A i \in DOMAIN s : s[i] # sep
    THEN <<s>>
    ELSE LET k == CHOOSE i \in DOMAIN s :
                      s[i] = sep /\ \A j \in 1..(i - 1) : s[j] # sep
         IN  <<SubSeq(s, 1, k - 1)>> \o Split(SubSeq(s, k + 1, Len(s)), sep)

\* The value of the longest all-digit prefix of s starting at position i.
RECURSIVE DigitsValue(_, _, _)
DigitsValue(s, i, acc) ==
    IF i > Len(s) \/ ~IsDigit(s[i])
    THEN acc
    ELSE DigitsValue(s, i + 1, acc * 10 + DigitVal(s[i]))

\* parseInt(s, 10) on text without sign or blank: the leading digits, NaN if
\* there is none.  s = Null stands for parseInt(undefined).
ParseInt(s) ==
    IF s = Null \/ s = <<>> THEN NaN
    ELSE IF IsDigit(s[1]) THEN DigitsValue(s, 1, 0) ELSE NaN

\* x || 0 on a number: NaN and 0 are falsy.
OrZero(x) == IF x = NaN THEN 0 ELSE x

\* Template-literal formatting of a number: decimal digits, "NaN" for NaN.
RECURSIVE NatToText(_)
NatToText(n) ==
    IF n < 10 THEN <<Digits[n + 1]>>
    ELSE NatToText(n \div 10) \o <<Digits[(n % 10) + 1]>>

NumToText(x) == IF x = NaN THEN <<"N", "a", "N">> ELSE NatToText(x)

\* NaN + 1 is NaN.
PlusOne(x) == IF x = NaN THEN NaN ELSE x + 1

(* ------------------------------------------------------------------ *)
(* VersionCodec: parseFlutterVersion, compareVersions,                 *)
(* generateNextVersion                                                 *)
(* ------------------------------------------------------------------ *)

\* The i-th element of an array, undefined (Null) past its end.
At(arr, i) == IF i <= Len(arr) THEN arr[i] ELSE Null

\* The null parseFlutterVersion returns, as a record so that it compares
\* with parsed versions; no parsed version has full = Null.
NullVersion ==
    [major |-> NaN, minor |-> NaN, patch |-> NaN, build |-> NaN,
     base |-> Null, full |-> Null]

\* parseFlutterVersion without its guard on a missing text: the zero version
\* where the source returns null.
parseFlutterVersionZero(versionStr) ==
    [major |-> 0, minor |-> 0, patch |-> 0, build |-> 0,
     base |-> <<>>, full |-> versionStr]

parseFlutterVersion(versionStr) ==
    IF versionStr = Null \/ versionStr = <<>> THEN NullVersion
    ELSE LET parts       == Split(versionStr, "+")
             baseParts   == Split(parts[1], ".")
             buildNumber == IF At(parts, 2) # Null /\ At(parts, 2) # <<>>
                            THEN ParseInt(parts[2])
                            ELSE 0
         IN  [major |-> OrZero(ParseInt(At(baseParts, 1))),
              minor |-> OrZero(ParseInt(At(baseParts, 2))),
              patch |-> OrZero(ParseInt(At(baseParts, 3))),
              build |-> buildNumber,
              base  |-> parts[1],
              full  |-> versionStr]

\* A numeric identifier of semver: 0, or digits with no leading zero.
IsNumericId(s) ==
    /\ Len(s) >= 1
    /\ \A i \in DOMAIN s : IsDigit(s[i])
    /\ (Len(s) > 1 => s[1] # "0")

\* What new SemVer(base) accepts, for text made of digits, '.' and letters
\* (no 'v' prefix, no '-' pre-release part): exactly three numeric identifiers.
SemverValid(base) ==
    LET ids == Split(base, ".")
    IN  Len(ids) = 3 /\ \A i \in 1..3 : IsNumericId(ids[i])

Sign(a, b) == IF a > b THEN 1 ELSE IF a < b THEN -1 ELSE 0

\* semver.compare(a, b): major, then minor, then patch, numerically;
\* throws TypeError("Invalid Version") when either text is not a semver.
semverCompare(a, b) ==
    IF ~SemverValid(a) \/ ~SemverValid(b) THEN Throw
    ELSE LET x == Split(a, ".")
             y == Split(b, ".")
             c1 == Sign(DigitsValue(x[1], 1, 0), DigitsValue(y[1], 1, 0))
             c2 == Sign(DigitsValue(x[2], 1, 0), DigitsValue(y[2], 1, 0))
             c3 == Sign(DigitsValue(x[3], 1, 0), DigitsValue(y[3], 1, 0))
         IN  IF c1 # 0 THEN c1 ELSE IF c2 # 0 THEN c2 ELSE c3

\* JavaScript a > b on numbers: false when either is NaN.
NumGt(a, b) == a # NaN /\ b # NaN /\ a > b

compareVersions(current, previous) ==
    LET currentParsed  == parseFlutterVersion(current)
        previousParsed == parseFlutterVersion(previous)
    IN  IF currentParsed = NullVersion \/ previousParsed = NullVersion THEN 0
        ELSE LET baseComparison ==
                     semverCompare(currentParsed.base, previousParsed.base)
             IN  IF baseComparison # 0 THEN baseComparison
                 ELSE IF NumGt(currentParsed.build, previousParsed.build) THEN 1
                 ELSE IF NumGt(previousParsed.build, currentParsed.build) THEN -1
                 ELSE 0

\* The template literal `${major}.${minor}.${patch}+${build}` on numbers.
VersionTextNoBuild(major, minor, patch, build) ==
    NumToText(major) \o <<".">> \o NumToText(minor) \o <<".">>
    \o NumToText(patch)

VersionText(major, minor, patch, build) ==
    NumToText(major) \o <<".">> \o NumToText(minor) \o <<".">>
    \o NumToText(patch) \o <<"+">> \o NumToText(build)

\* generateNextVersion that bumps the zero version where the source returns
\* the bootstrap version.
generateNextVersionNoBootstrap(previousVersion) ==
    LET parsed == IF previousVersion = Null \/ previousVersion = <<>>
                  THEN parseFlutterVersionZero(previousVersion)
                  ELSE parseFlutterVersion(previousVersion)
    IN  VersionText(parsed.major, parsed.minor, PlusOne(parsed.patch),
                    PlusOne(parsed.build))

generateNextVersion(previousVersion) ==
    LET parsed == parseFlutterVersion(previousVersion)
    IN  IF parsed = NullVersion THEN <<"1", ".", "0", ".", "0", "+", "1">>
        ELSE LET newPatch == PlusOne(parsed.patch)
                 newBuild == PlusOne(parsed.build)
             IN  VersionText(parsed.major, parsed.minor, newPatch, newBuild)

\* The local script's incrementVersion(currentVersion, previousVersion): when
\* the base already exceeds that of the previous version only the build is
\* incremented.  Its parseFlutterVersion is that of the action.
incrementVersion(current, previous) ==
    LET parsed == parseFlutterVersion(current)
        prevParsed == parseFlutterVersion(previous)
    IN  IF parsed = NullVersion THEN <<"1", ".", "0", ".", "0", "+", "1">>
        ELSE IF /\ prevParsed # NullVersion
                /\ \/ parsed.patch > prevParsed.patch
                   \/ parsed.minor > prevParsed.minor
                   \/ parsed.major > prevParsed.major
             THEN VersionText(parsed.major, parsed.minor, parsed.patch,
                              PlusOne(parsed.build))
             ELSE VersionText(parsed.major, parsed.minor,
                              PlusOne(parsed.patch), PlusOne(parsed.build))

\* The bump types given to the tag-based tool; "other" stands for any text
\* that names no type.
BumpTypes == {"major", "minor", "patch", "build", "MAJOR", "other"}

\* bumpType.toLowerCase()
toLowerCase(type) == IF type = "MAJOR" THEN "major" ELSE type

\* The tag-based tool's generateNextVersion(currentVersion, bumpType).  Its
\* parseFlutterVersion and compareVersions are those of the action.
generateNextVersionOfType(current, bumpType) ==
    LET parsed == parseFlutterVersion(current)
        type   == toLowerCase(bumpType)
    IN  IF parsed = NullVersion THEN <<"1", ".", "0", ".", "0", "+", "1">>
        ELSE CASE type = "major" ->
                      VersionText(parsed.major + 1, 0, 0, 1)
               [] type = "minor" ->
                      VersionText(parsed.major, parsed.minor + 1, 0, 1)
               [] type = "build" ->
                      VersionText(parsed.major, parsed.minor, parsed.patch,
                                  PlusOne(parsed.build))
               [] OTHER ->
                      VersionText(parsed.major, parsed.minor,
                                  parsed.patch + 1, 1)

(* ------------------------------------------------------------------ *)
(* The inputs of a run                                                 *)
(* ------------------------------------------------------------------ *)

V_1_0_0_b1  == <<"1", ".", "0", ".", "0", "+", "1">>
V_1_0_0     == <<"1", ".", "0", ".", "0">>
V_1_0_0_b0  == <<"1", ".", "0", ".", "0", "+", "0">>
V_1_0_1_b2  == <<"1", ".", "0", ".", "1", "+", "2">>
V_1_0_9_b9  == <<"1", ".", "0", ".", "9", "+", "9">>
V_01_0_0_b1 == <<"0", "1", ".", "0", ".", "0", "+", "1">>

\* Version texts a pubspec.yaml may hold; all match ^\d+\.\d+\.\d+(\+\d+)?$.
VersionTexts ==
    {V_1_0_0_b1, V_1_0_0, V_1_0_0_b0, V_1_0_1_b2, V_1_0_9_b9, V_01_0_0_b1}

\* What `git show <commit>:pubspec.yaml` and yaml.load give for one commit.
CommitEntries == VersionTexts \cup {Absent}

\* The histories of origin/<branch>, newest commit first.
Histories == UNION {[1..n -> CommitEntries] : n \in 0..MaxHist}

\* The lines of pubspec.yaml other than the version field: comments and
\* top-level fields.
Comment == [key |-> "#", value |-> "The app"]

NameField == [key |-> "name", value |-> "app"]

DescriptionField == [key |-> "description", value |-> "app"]

\* The most lines besides the version field a pubspec.yaml holds.
MaxLines == 2

\* yaml.load accepts the lines: no key occurs twice.
Loads(lines) ==
    \A i, j \in DOMAIN lines :
        (lines[i].key # "#" /\ lines[i].key = lines[j].key) => i = j

Pubspecs ==
    {lines \in UNION {[1..n -> {Comment, NameField, DescriptionField}] :
                          n \in 0..MaxLines} : Loads(lines)}

\* The pubspec.yaml of the runs that are followed from their start.
Pubspec == <<Comment, NameField>>

\* yaml.load: the mapping of the document, its keys in the order of the
\* text; comments are no part of it.
yamlLoad(lines) ==
    LET fields == SelectSeq(lines, LAMBDA l : l.key # "#")
    IN  [keys  |-> [i \in DOMAIN fields |-> fields[i].key],
         value |-> [k \in {fields[i].key : i \in DOMAIN fields} |->
                      (CHOOSE l \in {fields[i] : i \in DOMAIN fields} :
                          l.key = k).value]]

\* yaml.dump that writes no field but the version.
yamlDumpVersionOnly(doc) == <<>>

\* yaml.dump: one line per key of the mapping, in the order of its keys.
yamlDump(doc) ==
    [i \in DOMAIN doc.keys |-> [key |-> doc.keys[i],
                                 value |-> doc.value[doc.keys[i]]]]

\* The version field of a pubspec.yaml that a failed write cut short.
Truncated == <<"truncated">>

\* The commit-message input: empty, the default of action.yml, and the one
\* of the README's example.
NoMessage == <<>>

DefaultMessage == << <<"Auto-increment version">> >>

ReadmeMessage ==
    << <<"Auto-increment version to ">>, <<"%NEW_VERSION%">>, <<" [skip ci]">> >>

CustomMessages == {NoMessage, DefaultMessage, ReadmeMessage}

\* commitAndPush: customMessage || `... ${newVersion} ... ${previousVersion}
\* ...`, as the pieces of text it is put together from.
commitMessage(custom, new, previous) ==
    IF custom # <<>> THEN custom
    ELSE << <<"Auto-increment version to ">>, new, <<"Previous version: ">>,
            previous, <<"New version: ">>, new,
            <<"Auto-generated by GitHub Actions">>, <<"[skip ci]">> >>

(* ------------------------------------------------------------------ *)
(* State                                                               *)
(* ------------------------------------------------------------------ *)

VARIABLES
    pc,                \* position of run()
    manifest,          \* the version field of pubspec.yaml, Absent if none
    others,            \* the other lines of pubspec.yaml, in order
    original,          \* the other lines of pubspec.yaml as checked out
    customMessage,     \* the commit-message input
    message,           \* the message of the commit the run created
    faults,            \* the provider commands that fail, when that is fixed
                       \* before the run
    prior,             \* the correction made by the run before this one:
                       \* "none", "reuse" or "lower"
    history,           \* the commits of origin/<branch>, newest first
    commits,           \* the commits rev-list returned to the scan
    idx,               \* number of commits the scan loop has taken
    sameVersionCount,  \* findPreviousVersion's counter
    foundVersions,     \* findPreviousVersion's list of versions seen
    currentVersion,    \* run's currentVersion
    previousVersion,   \* run's previousVersion (Null: none found)
    newVersion,        \* run's newVersion
    outputs,           \* the action outputs set with core.setOutput
    failed,            \* core.setFailed was called
    ops,               \* the writes and git commands issued, in order
    tags,              \* the tags created by `git tag -a`
    revision,          \* which revision of the source runs
    calls,             \* the history-provider commands issued, in order
    bump,              \* the manifest change: "none", "staged", "committed"
    pushed,            \* a push of the branch succeeded
    tagPushed,         \* the push of the new tag succeeded
    oldTag,            \* the tag v<newVersion> from before the run, as the
                       \* run's tag commands found it and left it
    gitFault,          \* a command of commitAndPush failed for a reason other
                       \* than the tag being there or not
    probe              \* the texts the codec is applied to, and its answers

vars == <<pc, manifest, others, original, customMessage, message, faults,
          prior, history,
          commits, idx, sameVersionCount, foundVersions,
          currentVersion, previousVersion, newVersion, outputs, failed, ops, tags,
          revision, calls, bump, pushed, tagPushed, oldTag, gitFault,
          probe>>

scanVars == <<commits, idx, sameVersionCount, foundVersions>>

runVars == <<currentVersion, previousVersion, newVersion, outputs>>

repoVars == <<tags, bump, pushed, tagPushed, oldTag, gitFault, message>>

\* What no step of a run changes.
envVars ==
    <<history, revision, probe, original, customMessage, faults, prior>>

\* The value of the previous-version output when no version was found.
None == <<"n", "o", "n", "e">>

\* rev-list --max-count
MaxCount == 100

\* rev-list without --max-count.
TakeAll(s, n) == s

Take(s, n) == SubSeq(s, 1, IF Len(s) < n THEN Len(s) ELSE n)

\* A history longer than rev-list returns: MaxCount commits whose manifest
\* cannot be read, then one with a version.
LongHistory ==
    [i \in 1..(MaxCount + 1) |-> IF i <= MaxCount THEN Absent ELSE V_1_0_9_b9]

\* The commands of findPreviousVersion that may fail.
ProviderCommands == {"fetch", "fetch-all", "rev-list", "rev-list-head"}

\* Which commands fail is not fixed before the run: each call may fail.
Unfixed == {"any"}

\* Whether a call of a provider command may succeed, may fail.
Outcomes(cmd) == IF faults = Unfixed THEN BOOLEAN ELSE {cmd \notin faults}

\* The revisions of the action in the repository: index.js lines 1-583
\* (token-free), 585-1055 (token), 1056-1730 (push strategies), and the
\* earlier revision whose execGit never throws.
Revisions == {"tokenfree", "token", "strategies", "early"}

\* Where a tag named v<newVersion> may exist before the run: the repository
\* may hold one from an earlier attempt.  The run meets it at its first tag
\* command.
\* `seen` keeps that it was there when the run met it.
TagStates ==
    {[local |-> l, remote |-> r, seen |-> l \/ r] : l, r \in BOOLEAN}

NoTag == [local |-> FALSE, remote |-> FALSE, seen |-> FALSE]

\* No text has been given to the codec.
NoProbe ==
    [a |-> Null, b |-> Null, parsed |-> <<>>, cmp |-> <<>>, next |-> Null,
     nextCmp |-> <<>>, inc |-> Null, v |-> <<>>, type |-> "", text |-> Null,
     bumped |-> Null, bumpedCmp |-> <<>>, ref |-> <<>>]

Init ==
    /\ pc = "start"
    /\ manifest \in VersionTexts \cup {Absent}
    /\ history \in Histories \cup {LongHistory}
    /\ others = Pubspec
    /\ original = Pubspec
    /\ customMessage = DefaultMessage
    /\ message = Null
    /\ prior = "none"
    /\ faults = Unfixed
    /\ commits = <<>>
    /\ idx = 0
    /\ sameVersionCount = 0
    /\ foundVersions = <<>>
    /\ currentVersion = Null
    /\ previousVersion = Null
    /\ newVersion = Null
    /\ outputs = [previous |-> Null, current |-> Null, updated |-> "unset",
                  new |-> Null]
    /\ failed = FALSE
    /\ ops = <<>>
    /\ tags = {}
    /\ revision = "tokenfree"
    /\ calls = <<>>
    /\ bump = "none"
    /\ pushed = FALSE
    /\ tagPushed = FALSE
    /\ oldTag = NoTag
    /\ gitFault = FALSE
    /\ probe = NoProbe

(* ------------------------------------------------------------------ *)
(* HistoryScanner: findPreviousVersion                                 *)
(* ------------------------------------------------------------------ *)

\* The scan's loop state: the counter, the list, and the value returned from
\* inside the loop once it has returned.
ScanStart == [count |-> 0, found |-> <<>>, returned |-> FALSE, result |-> Null]

\* LoopBody with the reuse test off by one: one earlier sighting of the
\* current version already counts as reuse.
LoopBodyReuseOnOne(st, entry, current) ==
    IF entry = Absent \/ entry = <<>>
    THEN st
    ELSE LET seen == [st EXCEPT !.found = Append(st.found, entry)]
         IN  IF entry = current
             THEN [seen EXCEPT !.count = st.count + 1]
             ELSE [seen EXCEPT !.returned = TRUE,
                               !.result = IF st.count >= 1 THEN current
                                          ELSE entry]

\* LoopBody without the guards that skip a commit with no version: the
\* missing version is compared like any other and ends the scan.
LoopBodyNoSkip(st, entry, current) ==
    IF entry = current
    THEN [st EXCEPT !.found = Append(st.found, entry), !.count = st.count + 1]
    ELSE [st EXCEPT !.found = Append(st.found, entry),
                    !.returned = TRUE,
                    !.result = IF st.count > 1 THEN current
                               ELSE IF entry = Absent THEN Null ELSE entry]

\* LoopBody that, before a second sighting of the current version, records a
\* different version and goes on to the next commit.
LoopBodyKeepLooking(st, entry, current) ==
    IF entry = Absent \/ entry = <<>>
    THEN st
    ELSE LET seen == [st EXCEPT !.found = Append(st.found, entry)]
         IN  IF entry = current
             THEN [seen EXCEPT !.count = st.count + 1]
             ELSE IF st.count > 1
             THEN [seen EXCEPT !.returned = TRUE, !.result = current]
             ELSE seen

\* One iteration of `for (const commitHash of commits)` on the entry read
\* from that commit.
LoopBody(st, entry, current) ==
    IF entry = Absent \/ entry = <<>>
    THEN st
    ELSE LET seen == [st EXCEPT !.found = Append(st.found, entry)]
         IN  IF entry = current
             THEN [seen EXCEPT !.count = st.count + 1]
             ELSE [seen EXCEPT !.returned = TRUE,
                               !.result = IF st.count > 1 THEN current
                                          ELSE entry]

\* AfterLoop that takes a single sighting of the current version for reuse.
AfterLoopReuseOnOne(st, current) ==
    IF st.count >= 1 THEN current ELSE Null

\* AfterLoop that asks for three sightings before it reports reuse.
AfterLoopReuseOnThree(st, current) ==
    IF st.count > 2 THEN current ELSE Null

\* The code after the loop, reached when no iteration returned.
AfterLoop(st, current) ==
    IF st.count > 1 THEN current
    ELSE LET different == {i \in DOMAIN st.found : st.found[i] # current}
         IN  IF different # {}
             THEN st.found[CHOOSE i \in different :
                               \A j \in different : i <= j]
             ELSE Null

\* The whole scan of a commit list: the loop, then the code after it.
RECURSIVE ScanFrom(_, _, _, _)
ScanFrom(st, list, i, current) ==
    IF st.returned THEN st.result
    ELSE IF i > Len(list) THEN AfterLoop(st, current)
    ELSE ScanFrom(LoopBody(st, list[i], current), list, i + 1, current)

findPreviousVersion(list, current) ==
    IF Len(list) = 0 THEN Null ELSE ScanFrom(ScanStart, list, 1, current)

(* ------------------------------------------------------------------ *)
(* Reconciler: run                                                     *)
(* ------------------------------------------------------------------ *)

\* Decision with the arguments of compareVersions swapped.
DecisionSwapped(current, previous) ==
    IF previous = Null THEN "first-build"
    ELSE LET comparison == compareVersions(previous, current)
         IN  IF comparison = Throw THEN "throw"
             ELSE IF current = previous THEN "reuse"
             ELSE IF comparison > 0 THEN "passed"
             ELSE IF comparison < 0 THEN "lower"
             ELSE "fallthrough"

\* The branch run() takes once it has the current and the previous version.
Decision(current, previous) ==
    IF previous = Null THEN "first-build"
    ELSE LET comparison == compareVersions(current, previous)
         IN  IF comparison = Throw THEN "throw"
             ELSE IF current = previous THEN "reuse"
             ELSE IF comparison > 0 THEN "passed"
             ELSE IF comparison < 0 THEN "lower"
             ELSE "fallthrough"

\* Correction that always bumps the current version.
CorrectionFromCurrent(current, previous) == generateNextVersion(current)

\* The version run() writes in the branch it takes.
Correction(current, previous) ==
    IF current = previous THEN generateNextVersion(current)
    ELSE generateNextVersion(previous)

tagName(version) == <<"v">> \o version

Fail ==
    /\ failed' = TRUE
    /\ pc' = "done"

\* getCurrentVersion that hands on whatever it was given.
getCurrentVersionUnchecked(content) == content

\* getCurrentVersion, with run's tests of its result: Null when the file is
\* missing or unreadable, is no YAML, or has no (or an empty) version field.
getCurrentVersion(content) ==
    IF content = Absent \/ content = <<>> THEN Null ELSE content

\* execGit whose failures throw whatever the caller asked for.
execGitAlwaysThrows(ok, throwOnError) == IF ok THEN "ok" ELSE "throw"

\* execGit: the command's output when it exits with 0; otherwise it throws
\* if throwOnError, and warns and returns the empty text if not.
execGit(ok, throwOnError) ==
    IF ok THEN "ok" ELSE IF throwOnError THEN "throw" ELSE "empty"

Called(cmd) == \E i \in DOMAIN calls : calls[i] = cmd

Issued(op) == \E i \in DOMAIN ops : ops[i] = op

\* A throw of a provider command leaves findPreviousVersion through its
\* outer catch, which returns null.
ProviderReturnsNull ==
    /\ previousVersion' = Null
    /\ pc' = "decide"

\* run, lines 464-480: the manifest must exist and hold a version.
ReadManifest ==
    /\ pc = "start"
    /\ LET version == getCurrentVersion(manifest)
       IN  IF version = Null
           THEN Fail /\ UNCHANGED currentVersion
           ELSE /\ currentVersion' = version
                /\ pc' = "shallow"
                /\ UNCHANGED failed
    /\ UNCHANGED <<manifest, others, scanVars, previousVersion, newVersion,
                   outputs, ops, calls, repoVars, envVars>>

\* git rev-parse --is-shallow-repository: "true", another answer, or a
\* failure, which execGit turns into the empty text.
ShallowCheck ==
    /\ pc = "shallow"
    /\ calls' = Append(calls, "is-shallow")
    /\ \E answer \in {"true", "false", "failed"} :
          LET r == execGit(answer # "failed", FALSE)
          IN  IF r = "throw"
              THEN ProviderReturnsNull
              ELSE /\ pc' = IF answer = "true" THEN "unshallow" ELSE "fetch"
                   /\ UNCHANGED previousVersion
    /\ UNCHANGED <<manifest, others, scanVars, currentVersion, newVersion,
                   outputs, failed, ops, repoVars, envVars>>

\* A provider command whose answer findPreviousVersion does not read.
ProviderStep(at, cmd, next) ==
    /\ pc = at
    /\ calls' = Append(calls, cmd)
    /\ \E ok \in BOOLEAN :
          IF execGit(ok, FALSE) = "throw"
          THEN ProviderReturnsNull
          ELSE pc' = next /\ UNCHANGED previousVersion
    /\ UNCHANGED <<manifest, others, scanVars, currentVersion, newVersion,
                   outputs, failed, ops, repoVars, envVars>>

\* git fetch --unshallow
Unshallow == ProviderStep("unshallow", "unshallow", "fetch")

\* git fetch origin <branch>; were it to throw, git fetch origin is tried.
FetchBranch ==
    /\ pc = "fetch"
    /\ \E ok \in Outcomes("fetch"), okAll \in Outcomes("fetch-all") :
          LET r == execGit(ok, FALSE)
          IN  /\ calls' = calls \o (IF r = "throw" THEN <<"fetch", "fetch-all">>
                                    ELSE <<"fetch">>)
              /\ IF r = "throw" /\ execGit(okAll, FALSE) = "throw"
                 THEN ProviderReturnsNull
                 ELSE pc' = "enumerate" /\ UNCHANGED previousVersion
    /\ UNCHANGED <<manifest, others, scanVars, currentVersion, newVersion,
                   outputs, failed, ops, repoVars, envVars>>

\* git rev-list origin/<branch> --max-count=100: a failed rev-list yields the
\* empty list, and findPreviousVersion returns null on an empty list.  Were
\* it to throw, git rev-list HEAD is tried: HEAD is the checked-out tip of
\* the branch.
Enumerate ==
    /\ pc = "enumerate"
    /\ \E ok \in Outcomes("rev-list"), okHead \in Outcomes("rev-list-head") :
          LET r == execGit(ok, FALSE)
              rHead == execGit(okHead, FALSE)
              list == IF r = "ok" \/ (r = "throw" /\ rHead = "ok")
                      THEN Take(history, MaxCount) ELSE <<>>
          IN  /\ calls' = calls \o (IF r = "throw"
                                    THEN <<"rev-list", "rev-list-head">>
                                    ELSE <<"rev-list">>)
              /\ commits' = list
              /\ IF (r = "throw" /\ rHead = "throw") \/ Len(list) = 0
                 THEN ProviderReturnsNull
                 ELSE /\ UNCHANGED previousVersion
                      /\ pc' = "scan"
    /\ UNCHANGED <<manifest, others, idx, sameVersionCount, foundVersions,
                   currentVersion, newVersion, outputs, failed, ops, repoVars,
                   envVars>>

ScanState ==
    [count |-> sameVersionCount, found |-> foundVersions, returned |-> FALSE,
     result |-> Null]

\* One iteration of the scan loop: git show <commit>:pubspec.yaml, then the
\* loop body on what was read (Absent when the command failed).
ScanCommit ==
    /\ pc = "scan"
    /\ idx < Len(commits)
    /\ calls' = Append(calls, "show")
    /\ LET st == LoopBody(ScanState, commits[idx + 1], currentVersion)
       IN  /\ idx' = idx + 1
           /\ sameVersionCount' = st.count
           /\ foundVersions' = st.found
           /\ IF st.returned
              THEN /\ previousVersion' = st.result
                   /\ pc' = "decide"
              ELSE UNCHANGED <<previousVersion, pc>>
    /\ UNCHANGED <<manifest, others, commits, currentVersion, newVersion,
                   outputs, failed, ops, repoVars, envVars>>

\* The loop ran out of commits.
ScanExhausted ==
    /\ pc = "scan"
    /\ idx = Len(commits)
    /\ previousVersion' = AfterLoop(ScanState, currentVersion)
    /\ pc' = "decide"
    /\ UNCHANGED <<manifest, others, scanVars, currentVersion, newVersion,
                   outputs, failed, ops, calls, repoVars, envVars>>

\* run, lines 485-566: the outputs, the comparison and the branch.
Decide ==
    /\ pc = "decide"
    /\ LET d == Decision(currentVersion, previousVersion)
           out == [outputs EXCEPT
                      !.previous = IF previousVersion = Null THEN None
                                   ELSE previousVersion,
                      !.current = currentVersion]
       IN  CASE d \in {"first-build", "passed"} ->
                   /\ outputs' = [out EXCEPT !.updated = "false"]
                   /\ pc' = "done"
                   /\ UNCHANGED <<newVersion, failed, oldTag>>
             [] d = "throw" ->
                   /\ outputs' = out
                   /\ Fail
                   /\ UNCHANGED <<newVersion, oldTag>>
             [] d \in {"reuse", "lower"} ->
                   /\ outputs' = out
                   /\ newVersion' = Correction(currentVersion, previousVersion)
                   /\ pc' = "write"
                   /\ UNCHANGED <<failed, oldTag>>
             [] OTHER ->
                   /\ outputs' = out
                   /\ pc' = "done"
                   /\ UNCHANGED <<newVersion, failed, oldTag>>
    /\ UNCHANGED <<manifest, others, message, scanVars, currentVersion,
                   previousVersion, ops, calls, tags, bump, pushed, tagPushed,
                   gitFault, envVars>>

\* updatePubspecVersion: yaml.load, doc.version = newVersion, yaml.dump,
\* fs.writeFileSync; false when any of them throws.  readFileSync, load and
\* dump throw before the file is touched ("refused"); writeFileSync opens
\* the file with flag 'w', which empties it, and then writes, so a write
\* that throws part-way leaves the file cut short ("truncated").
WriteManifest ==
    /\ pc = "write"
    /\ ops' = Append(ops, "write")
    /\ \E outcome \in {"written", "refused", "truncated"} :
          CASE outcome = "written" ->
                   /\ manifest' = newVersion
                   /\ others' = yamlDump(yamlLoad(others))
                   /\ pc' = "config"
                   /\ UNCHANGED failed
            [] outcome = "refused" ->
                   Fail /\ UNCHANGED <<manifest, others>>
            [] outcome = "truncated" ->
                   /\ Fail
                   /\ manifest' = Truncated
                   /\ others' = <<>>
    /\ UNCHANGED <<scanVars, runVars, calls, repoVars, envVars>>

(* ------------------------------------------------------------------ *)
(* commitAndPush, in each revision                                     *)
(* ------------------------------------------------------------------ *)

\* ThrowOnError with the fallback push called without throwOnError.
ThrowOnErrorButFallback(rev, op) ==
    /\ rev # "early"
    /\ op \notin {"status", "tag-delete", "push-tag-delete", "push-fallback"}

\* The throwOnError argument of the execGit call that issues `op`.  The
\* earlier revision's execGit has no such argument and never throws.
ThrowOnError(rev, op) ==
    rev # "early" /\ op \notin {"status", "tag-delete", "push-tag-delete"}

\* git status --porcelain is asked before staging.
HasStatusCheck(rev) == rev # "early"

\* A tag of the same name is deleted before the tag is created.
DeletesTag(rev) == rev \in {"tokenfree", "strategies"}

\* The branch pushes a revision tries, in order.
PushStrategies(rev) ==
    CASE rev = "tokenfree"  -> <<"push", "push-fallback">>
      [] rev = "strategies" -> <<"push", "push-fallback", "push-force">>
      [] OTHER              -> <<"push">>

\* The try/catch around the tag push.
CatchesTagPush(rev) == rev \in {"tokenfree", "strategies"}

PcOf(op) ==
    CASE op = "push-fallback" -> "pushfallback"
      [] op = "push-force"    -> "pushforce"
      [] OTHER                -> op

\* A git command with no effect the model follows: run goes on at `next`,
\* or the command throws and the run ends failed.
GitStep(at, op, next) ==
    /\ pc = at
    /\ ops' = Append(ops, op)
    /\ \E ok \in BOOLEAN :
          /\ gitFault' = (gitFault \/ ~ok)
          /\ IF execGit(ok, ThrowOnError(revision, op)) = "throw"
             THEN Fail
             ELSE pc' = next /\ UNCHANGED failed
    /\ UNCHANGED <<manifest, others, message, scanVars, runVars, calls, tags,
                   bump, pushed, tagPushed, oldTag, envVars>>

\* configureGit: the user identity, thrown on when no identity can be set.
ConfigureGit ==
    GitStep("config", "config",
            IF HasStatusCheck(revision) THEN "status" ELSE "add")

\* git status --porcelain; an empty answer (a clean tree, or the command
\* failing) returns from commitAndPush with nothing committed.
GitStatus ==
    /\ pc = "status"
    /\ \E status \in {"changes", "empty"} :
          /\ pc' = IF status = "empty" THEN "finish" ELSE "add"
          /\ gitFault' = (gitFault \/ status = "empty")
    /\ UNCHANGED <<manifest, others, message, scanVars, runVars, failed, ops,
                   calls, tags, bump, pushed, tagPushed, oldTag, envVars>>

\* git add pubspec.yaml
GitAdd ==
    /\ pc = "add"
    /\ ops' = Append(ops, "add")
    /\ \E ok \in BOOLEAN :
          /\ bump' = IF ok THEN "staged" ELSE bump
          /\ gitFault' = (gitFault \/ ~ok)
          /\ IF execGit(ok, ThrowOnError(revision, "add")) = "throw"
             THEN Fail
             ELSE pc' = "commit" /\ UNCHANGED failed
    /\ UNCHANGED <<manifest, others, message, scanVars, runVars, calls, tags,
                   pushed, tagPushed, oldTag, envVars>>

\* commitAndPush that pushes the branch right after the commit.
AfterCommitPushes(rev) == "push"

\* Where commitAndPush goes on after the commit.
AfterCommit(rev) == IF DeletesTag(rev) THEN "tagdelete" ELSE "tagcreate"

\* The version run passes to commitAndPush as previousVersion: the current
\* one on the reuse branch (line 519), the previous one otherwise (line 556).
ReferenceVersion ==
    IF Decision(currentVersion, previousVersion) = "reuse"
    THEN currentVersion ELSE previousVersion

\* git commit -m <message>: there is nothing to commit unless the manifest
\* was staged.
GitCommit ==
    /\ pc = "commit"
    /\ ops' = Append(ops, "commit")
    /\ \E ok \in (IF bump = "staged" THEN BOOLEAN ELSE {FALSE}) :
          /\ bump' = IF ok THEN "committed" ELSE bump
          /\ message' = IF ok
                        THEN commitMessage(customMessage, newVersion,
                                           ReferenceVersion)
                        ELSE message
          /\ gitFault' = (gitFault \/ ~ok)
          /\ IF execGit(ok, ThrowOnError(revision, "commit")) = "throw"
             THEN Fail
             ELSE pc' = AfterCommit(revision) /\ UNCHANGED failed
    /\ UNCHANGED <<manifest, others, scanVars, runVars, calls, tags, pushed,
                   tagPushed, oldTag, envVars>>

\* git tag -d <tag> and git push origin :refs/tags/<tag>, both without
\* throwOnError.  Either fails when there is no such tag, which changes
\* nothing; when the tag is there, a failure leaves it.
TagDelete ==
    /\ pc = "tagdelete"
    /\ ops' = ops \o <<"tag-delete", "push-tag-delete">>
    /\ \E found \in TagStates :
          \E okLocal \in (IF found.local THEN BOOLEAN ELSE {TRUE}),
             okRemote \in (IF found.remote THEN BOOLEAN ELSE {TRUE}) :
             /\ oldTag' = [found EXCEPT !.local = found.local /\ ~okLocal,
                                        !.remote = found.remote /\ ~okRemote]
             /\ gitFault' = (gitFault \/ ~okLocal \/ ~okRemote)
    /\ pc' = "tagcreate"
    /\ UNCHANGED <<manifest, others, message, scanVars, runVars, failed,
                   calls, tags, bump, pushed, tagPushed, envVars>>

\* git tag -a <tag>: refused while a local tag of that name exists.
TagCreate ==
    /\ pc = "tagcreate"
    /\ ops' = Append(ops, "tag-create")
    /\ \E found \in (IF DeletesTag(revision) THEN {oldTag} ELSE TagStates) :
          \E ok \in (IF found.local THEN {FALSE} ELSE BOOLEAN) :
             /\ oldTag' = found
             /\ tags' = IF ok THEN tags \cup {tagName(newVersion)} ELSE tags
             /\ gitFault' = (gitFault \/ (~ok /\ ~found.local))
             /\ IF execGit(ok, ThrowOnError(revision, "tag-create")) = "throw"
                THEN Fail
                ELSE pc' = "push" /\ UNCHANGED failed
    /\ UNCHANGED <<manifest, others, message, scanVars, runVars, calls, bump,
                   pushed, tagPushed, envVars>>

\* One branch push of PushStrategies: a throw is caught while another
\* strategy is left, and leaves commitAndPush after the last.
PushAttempt(k) ==
    LET strategies == PushStrategies(revision)
        op == strategies[k]
    IN  /\ k <= Len(strategies)
        /\ pc = PcOf(op)
        /\ ops' = Append(ops, op)
        /\ \E ok \in BOOLEAN :
              /\ pushed' = (pushed \/ ok)
              /\ gitFault' = (gitFault \/ ~ok)
              /\ IF execGit(ok, ThrowOnError(revision, op)) = "throw"
                 THEN IF k < Len(strategies)
                      THEN pc' = PcOf(strategies[k + 1]) /\ UNCHANGED failed
                      ELSE Fail
                 ELSE pc' = "pushtag" /\ UNCHANGED failed
        /\ UNCHANGED <<manifest, others, message, scanVars, runVars, calls,
                       tags, bump, tagPushed, oldTag, envVars>>

\* git push origin HEAD:<branch>
Push == PushAttempt(1)

\* git push origin HEAD
PushFallback == PushAttempt(2)

\* git push --force-with-lease origin HEAD:<branch>
PushForce == PushAttempt(3)

\* git push origin <tag>: rejected while the remote has a tag of that name,
\* and there must be a local tag to push.
PushTag ==
    /\ pc = "pushtag"
    /\ ops' = Append(ops, "push-tag")
    /\ LET can == /\ (tagName(newVersion) \in tags \/ oldTag.local)
                  /\ ~oldTag.remote
       IN  \E ok \in (IF can THEN BOOLEAN ELSE {FALSE}) :
              /\ tagPushed' = ok
              /\ gitFault' = (gitFault \/ (can /\ ~ok))
              /\ IF /\ execGit(ok, ThrowOnError(revision, "push-tag")) = "throw"
                    /\ ~CatchesTagPush(revision)
                 THEN Fail
                 ELSE pc' = "finish" /\ UNCHANGED failed
    /\ UNCHANGED <<manifest, others, message, scanVars, runVars, calls, tags,
                   bump, pushed, oldTag, envVars>>

\* run, lines 524-529 and 560-564: the outputs of a corrected run.
CorrectedOutputsKeepCurrent(out, new) ==
    [out EXCEPT !.updated = "true", !.new = new]

CorrectedOutputs(out, new) ==
    [out EXCEPT !.updated = "true", !.new = new, !.current = new]

Finish ==
    /\ pc = "finish"
    /\ outputs' = CorrectedOutputs(outputs, newVersion)
    /\ pc' = "done"
    /\ UNCHANGED <<manifest, others, scanVars, currentVersion, previousVersion,
                   newVersion, failed, ops, calls, repoVars, envVars>>

Next ==
    \/ ReadManifest
    \/ ShallowCheck
    \/ Unshallow
    \/ FetchBranch
    \/ Enumerate
    \/ ScanCommit
    \/ ScanExhausted
    \/ Decide
    \/ WriteManifest
    \/ ConfigureGit
    \/ GitStatus
    \/ GitAdd
    \/ GitCommit
    \/ TagDelete
    \/ TagCreate
    \/ Push
    \/ PushFallback
    \/ PushTag
    \/ Finish

\* A run of the action as action.yml runs it: the token-free revision.
Spec == Init /\ [][Next]_vars

(* ------------------------------------------------------------------ *)
(* A run, and the run started after it has corrected and pushed        *)
(* ------------------------------------------------------------------ *)

\* The push of the bump commit starts the workflow again: the checkout holds
\* the manifest the first run wrote, origin/<branch> has the bump commit at
\* its tip, and run starts afresh.
SecondRun ==
    /\ pc = "done"
    /\ prior = "none"
    /\ ~failed
    /\ outputs.updated = "true"
    /\ bump = "committed"
    /\ pushed
    /\ prior' = Decision(currentVersion, previousVersion)
    /\ history' = <<manifest>> \o history
    /\ original' = others
    /\ pc' = "start"
    /\ commits' = <<>>
    /\ idx' = 0
    /\ sameVersionCount' = 0
    /\ foundVersions' = <<>>
    /\ currentVersion' = Null
    /\ previousVersion' = Null
    /\ newVersion' = Null
    /\ outputs' = [previous |-> Null, current |-> Null, updated |-> "unset",
                   new |-> Null]
    /\ ops' = <<>>
    /\ calls' = <<>>
    /\ bump' = "none"
    /\ pushed' = FALSE
    /\ tagPushed' = FALSE
    /\ oldTag' = NoTag
    /\ gitFault' = FALSE
    /\ message' = Null
    /\ UNCHANGED <<manifest, others, customMessage, faults, failed, tags,
                   revision, probe>>

NextTwoRuns ==
    \/ Next
    \/ SecondRun

SpecTwoRuns == Init /\ [][NextTwoRuns]_vars

(* ------------------------------------------------------------------ *)
(* commitAndPush of every revision, from the call in run               *)
(* ------------------------------------------------------------------ *)

\* The versions run can correct from: comparing them does not throw.
Correctable == {v \in VersionTexts : compareVersions(v, v) # Throw}

\* The state in which run calls commitAndPush on the reuse branch: the new
\* version is written to the manifest, nothing is staged.  The scan that led
\* here is not followed: its variables keep their initial values.
InitRevisions ==
    /\ pc = "config"
    /\ revision \in Revisions
    /\ oldTag = NoTag
    /\ currentVersion \in Correctable
    /\ previousVersion = currentVersion
    /\ newVersion = generateNextVersion(currentVersion)
    /\ manifest = newVersion
    /\ others = yamlDump(yamlLoad(Pubspec))
    /\ original = Pubspec
    /\ customMessage \in CustomMessages
    /\ message = Null
    /\ prior = "none"
    /\ faults = Unfixed
    /\ outputs = [previous |-> previousVersion, current |-> currentVersion,
                  updated |-> "unset", new |-> Null]
    /\ ops = <<"write">>
    /\ history = <<>>
    /\ commits = <<>>
    /\ idx = 0
    /\ sameVersionCount = 0
    /\ foundVersions = <<>>
    /\ failed = FALSE
    /\ tags = {}
    /\ calls = <<>>
    /\ bump = "none"
    /\ pushed = FALSE
    /\ tagPushed = FALSE
    /\ gitFault = FALSE
    /\ probe = NoProbe

NextRevisions ==
    \/ ConfigureGit
    \/ GitStatus
    \/ GitAdd
    \/ GitCommit
    \/ TagDelete
    \/ TagCreate
    \/ Push
    \/ PushFallback
    \/ PushForce
    \/ PushTag
    \/ Finish

SpecRevisions == InitRevisions /\ [][NextRevisions]_vars

(* ------------------------------------------------------------------ *)
(* VersionCodec applied to pairs of version texts                      *)
(* ------------------------------------------------------------------ *)

V_1_0_b1 == <<"1", ".", "0", "+", "1">>

V_1_0_0_bx == <<"1", ".", "0", ".", "0", "+", "x">>

\* A text with no version in it.
V_abc == <<"a", "b", "c">>

V_1_1_0_b1 == <<"1", ".", "1", ".", "0", "+", "1">>

\* The texts the codec is applied to: the missing and the empty text,
\* well-formed versions, and texts that parseFlutterVersion accepts by
\* coercion.
CodecTexts ==
    VersionTexts \cup {V_1_0_b1, V_1_0_0_bx, V_abc, V_1_1_0_b1, <<>>, Null}

InitCodec ==
    /\ pc = "codec"
    /\ probe \in {[NoProbe EXCEPT !.a = x, !.b = y] : x, y \in CodecTexts}
    /\ manifest = Absent
    /\ others = Pubspec
    /\ original = Pubspec
    /\ customMessage = DefaultMessage
    /\ message = Null
    /\ prior = "none"
    /\ faults = Unfixed
    /\ history = <<>>
    /\ commits = <<>>
    /\ idx = 0
    /\ sameVersionCount = 0
    /\ foundVersions = <<>>
    /\ currentVersion = Null
    /\ previousVersion = Null
    /\ newVersion = Null
    /\ outputs = [previous |-> Null, current |-> Null, updated |-> "unset",
                  new |-> Null]
    /\ failed = FALSE
    /\ ops = <<>>
    /\ tags = {}
    /\ revision = "tokenfree"
    /\ calls = <<>>
    /\ bump = "none"
    /\ pushed = FALSE
    /\ tagPushed = FALSE
    /\ oldTag = NoTag
    /\ gitFault = FALSE

codecFrame ==
    <<manifest, others, original, customMessage, faults, prior, history,
      revision, scanVars,
      runVars, failed, ops, calls,
      repoVars>>

\* parseFlutterVersion on each text of the pair.
ApplyParseFlutterVersion ==
    /\ pc = "codec"
    /\ probe' = [probe EXCEPT !.parsed = <<parseFlutterVersion(probe.a),
                                           parseFlutterVersion(probe.b)>>]
    /\ pc' = "parsed"
    /\ UNCHANGED codecFrame

\* compareVersions on the pair, both ways round.
ApplyCompareVersions ==
    /\ pc = "parsed"
    /\ probe' = [probe EXCEPT !.cmp = <<compareVersions(probe.a, probe.b),
                                        compareVersions(probe.b, probe.a)>>]
    /\ pc' = "compared"
    /\ UNCHANGED codecFrame

\* generateNextVersion on the first text, and the result compared with it.
ApplyGenerateNextVersion ==
    /\ pc = "compared"
    /\ LET next == generateNextVersion(probe.a)
       IN  probe' = [probe EXCEPT !.next = next,
                                  !.nextCmp = <<compareVersions(next, probe.a)>>]
    /\ pc' = "generated"
    /\ UNCHANGED codecFrame

\* The local script's incrementVersion on the pair: the first text is the
\* current version, the second the previous one.
ApplyIncrementVersion ==
    /\ pc = "generated"
    /\ probe' = [probe EXCEPT !.inc = incrementVersion(probe.a, probe.b)]
    /\ pc' = "incremented"
    /\ UNCHANGED codecFrame

\* The tag-based tool's generateNextVersion on the first text with a bump
\* type, and the result compared with that text.
ApplyGenerateNextVersionOfType ==
    /\ pc = "incremented"
    /\ \E type \in BumpTypes :
          LET next == generateNextVersionOfType(probe.a, type)
          IN  probe' = [probe EXCEPT
                           !.type = type,
                           !.bumped = next,
                           !.bumpedCmp = <<compareVersions(next, probe.a)>>]
    /\ pc' = "bumped"
    /\ UNCHANGED codecFrame

NextCodec ==
    \/ ApplyParseFlutterVersion
    \/ ApplyCompareVersions
    \/ ApplyGenerateNextVersion
    \/ ApplyIncrementVersion
    \/ ApplyGenerateNextVersionOfType

SpecCodec == InitCodec /\ [][NextCodec]_vars

(* ------------------------------------------------------------------ *)
(* VersionCodec applied to versions given as numbers                   *)
(* ------------------------------------------------------------------ *)

\* The largest component of the versions that are formatted and parsed back.
MaxNum == 10

\* Versions with non-negative integer components.
Versions ==
    [major : 0..MaxNum, minor : 0..MaxNum, patch : 0..MaxNum,
     build : 0..MaxNum]

InitFormat ==
    /\ pc = "format"
    /\ probe \in {[NoProbe EXCEPT !.v = v] : v \in Versions}
    /\ manifest = Absent
    /\ others = Pubspec
    /\ original = Pubspec
    /\ customMessage = DefaultMessage
    /\ message = Null
    /\ prior = "none"
    /\ faults = Unfixed
    /\ history = <<>>
    /\ commits = <<>>
    /\ idx = 0
    /\ sameVersionCount = 0
    /\ foundVersions = <<>>
    /\ currentVersion = Null
    /\ previousVersion = Null
    /\ newVersion = Null
    /\ outputs = [previous |-> Null, current |-> Null, updated |-> "unset",
                  new |-> Null]
    /\ failed = FALSE
    /\ ops = <<>>
    /\ tags = {}
    /\ revision = "tokenfree"
    /\ calls = <<>>
    /\ bump = "none"
    /\ pushed = FALSE
    /\ tagPushed = FALSE
    /\ oldTag = NoTag
    /\ gitFault = FALSE

\* The version written as text.
ApplyVersionText ==
    /\ pc = "format"
    /\ probe' = [probe EXCEPT !.text = VersionText(probe.v.major, probe.v.minor,
                                                   probe.v.patch, probe.v.build)]
    /\ pc' = "formatted"
    /\ UNCHANGED codecFrame

\* parseFlutterVersion on that text.
ApplyParseBack ==
    /\ pc = "formatted"
    /\ probe' = [probe EXCEPT !.parsed = <<parseFlutterVersion(probe.text)>>]
    /\ pc' = "parsedback"
    /\ UNCHANGED codecFrame

NextFormat ==
    \/ ApplyVersionText
    \/ ApplyParseBack

SpecFormat == InitFormat /\ [][NextFormat]_vars

(* ------------------------------------------------------------------ *)
(* run from its decision on, over the pubspec.yaml files               *)
(* ------------------------------------------------------------------ *)

\* The state in which run has read the manifest and findPreviousVersion has
\* returned.  The scan is not followed: its variables keep their initial
\* values.
InitManifest ==
    /\ pc = "decide"
    /\ currentVersion \in VersionTexts
    /\ previousVersion \in VersionTexts \cup {Null}
    /\ manifest = currentVersion
    /\ others \in Pubspecs
    /\ original = others
    /\ customMessage = DefaultMessage
    /\ message = Null
    /\ prior = "none"
    /\ faults = Unfixed
    /\ history = <<>>
    /\ commits = <<>>
    /\ idx = 0
    /\ sameVersionCount = 0
    /\ foundVersions = <<>>
    /\ newVersion = Null
    /\ outputs = [previous |-> Null, current |-> Null, updated |-> "unset",
                  new |-> Null]
    /\ failed = FALSE
    /\ ops = <<>>
    /\ tags = {}
    /\ revision = "tokenfree"
    /\ calls = <<>>
    /\ bump = "none"
    /\ pushed = FALSE
    /\ tagPushed = FALSE
    /\ oldTag = NoTag
    /\ gitFault = FALSE
    /\ probe = NoProbe

NextManifest ==
    \/ Decide
    \/ WriteManifest

SpecManifest == InitManifest /\ [][NextManifest]_vars

(* ------------------------------------------------------------------ *)
(* findPreviousVersion from rev-list on, run to completion             *)
(* ------------------------------------------------------------------ *)

\* The state in which findPreviousVersion asks for the commits.  The
\* commands before it are not followed.
InitScan ==
    /\ pc = "enumerate"
    /\ currentVersion \in VersionTexts
    /\ manifest = currentVersion
    /\ history \in Histories \cup {LongHistory}
    /\ others = Pubspec
    /\ original = Pubspec
    /\ customMessage = DefaultMessage
    /\ message = Null
    /\ prior = "none"
    /\ faults = Unfixed
    /\ commits = <<>>
    /\ idx = 0
    /\ sameVersionCount = 0
    /\ foundVersions = <<>>
    /\ previousVersion = Null
    /\ newVersion = Null
    /\ outputs = [previous |-> Null, current |-> Null, updated |-> "unset",
                  new |-> Null]
    /\ failed = FALSE
    /\ ops = <<>>
    /\ tags = {}
    /\ revision = "tokenfree"
    /\ calls = <<>>
    /\ bump = "none"
    /\ pushed = FALSE
    /\ tagPushed = FALSE
    /\ oldTag = NoTag
    /\ gitFault = FALSE
    /\ probe = NoProbe

NextScan ==
    \/ Enumerate
    \/ ScanCommit
    \/ ScanExhausted

\* findPreviousVersion is one async function awaited by run, with nothing
\* else running: each await resumes, so a step that can be taken is taken.
SpecScan == InitScan /\ [][NextScan]_vars /\ WF_vars(NextScan)

(* ------------------------------------------------------------------ *)
(* findPreviousVersion from its first command on, with the commands    *)
(* that fail fixed before the run                                      *)
(* ------------------------------------------------------------------ *)

\* The state in which run calls findPreviousVersion.
InitProvider ==
    /\ pc = "shallow"
    /\ currentVersion \in {V_1_0_0_b1, V_1_0_1_b2}
    /\ manifest = currentVersion
    /\ history \in Histories
    /\ faults \in SUBSET ProviderCommands
    /\ others = Pubspec
    /\ original = Pubspec
    /\ customMessage = DefaultMessage
    /\ message = Null
    /\ prior = "none"
    /\ commits = <<>>
    /\ idx = 0
    /\ sameVersionCount = 0
    /\ foundVersions = <<>>
    /\ previousVersion = Null
    /\ newVersion = Null
    /\ outputs = [previous |-> Null, current |-> Null, updated |-> "unset",
                  new |-> Null]
    /\ failed = FALSE
    /\ ops = <<>>
    /\ tags = {}
    /\ revision = "tokenfree"
    /\ calls = <<>>
    /\ bump = "none"
    /\ pushed = FALSE
    /\ tagPushed = FALSE
    /\ oldTag = NoTag
    /\ gitFault = FALSE
    /\ probe = NoProbe

NextProvider ==
    \/ ShallowCheck
    \/ Unshallow
    \/ FetchBranch
    \/ Enumerate
    \/ ScanCommit
    \/ ScanExhausted

SpecProvider == InitProvider /\ [][NextProvider]_vars

(* ------------------------------------------------------------------ *)
(* findPreviousVersion of every revision on one history                *)
(* ------------------------------------------------------------------ *)

\* The earlier revision reads HEAD~1 to HEAD~20.
MaxAncestors == 20

\* git log --merges -n 10
MaxMerges == 10

\* The first entry of a list with a version that is not `current`, null when
\* there is none.
FirstOther(list, current) ==
    LET ks == {k \in DOMAIN list :
                  list[k] # Absent /\ list[k] # <<>> /\ list[k] # current}
    IN  IF ks = {} THEN Null
        ELSE list[CHOOSE k \in ks : \A j \in ks : k <= j]

\* The elements of a list at the given positions, in order.
RECURSIVE AtPositions(_, _, _)
AtPositions(list, positions, i) ==
    IF i > Len(list) THEN <<>>
    ELSE (IF i \in positions THEN <<list[i]>> ELSE <<>>)
         \o AtPositions(list, positions, i + 1)

\* findPreviousVersion of the earlier revision, with HEAD at the tip of
\* origin/<branch>: the first of HEAD~1 .. HEAD~20 with another version,
\* then the first of the ten newest merge commits with another version.
\* `merges` are the positions of the merge commits in the history.
findPreviousVersionEarly(list, merges, current) ==
    LET last      == IF Len(list) < MaxAncestors + 1 THEN Len(list)
                     ELSE MaxAncestors + 1
        ancestors == SubSeq(list, 2, last)
        found     == FirstOther(ancestors, current)
    IN  IF found # Null THEN found
        ELSE FirstOther(Take(AtPositions(list, merges, 1), MaxMerges),
                        current)

\* The state in which run calls findPreviousVersion.
InitCompareRevisions ==
    /\ pc = "revisions"
    /\ currentVersion \in VersionTexts
    /\ manifest = currentVersion
    /\ history \in Histories
    /\ others = Pubspec
    /\ original = Pubspec
    /\ customMessage = DefaultMessage
    /\ message = Null
    /\ prior = "none"
    /\ faults = Unfixed
    /\ commits = <<>>
    /\ idx = 0
    /\ sameVersionCount = 0
    /\ foundVersions = <<>>
    /\ previousVersion = Null
    /\ newVersion = Null
    /\ outputs = [previous |-> Null, current |-> Null, updated |-> "unset",
                  new |-> Null]
    /\ failed = FALSE
    /\ ops = <<>>
    /\ tags = {}
    /\ revision = "tokenfree"
    /\ calls = <<>>
    /\ bump = "none"
    /\ pushed = FALSE
    /\ tagPushed = FALSE
    /\ oldTag = NoTag
    /\ gitFault = FALSE
    /\ probe = NoProbe

\* findPreviousVersion of each revision on the history, every command
\* succeeding.  The loop of the token and the token auto-detect revision is
\* that of the token-free one.
ApplyFindPreviousVersion ==
    /\ pc = "revisions"
    /\ \E merges \in SUBSET DOMAIN history :
          probe' = [probe EXCEPT !.ref =
                       [rev \in Revisions |->
                           IF rev = "early"
                           THEN findPreviousVersionEarly(history, merges,
                                                         currentVersion)
                           ELSE findPreviousVersion(Take(history, MaxCount),
                                                    currentVersion)]]
    /\ pc' = "referenced"
    /\ UNCHANGED <<manifest, others, message, scanVars, runVars, failed, ops,
                   calls, tags, bump, pushed, tagPushed, oldTag, gitFault,
                   history, revision, original, customMessage, faults, prior>>

NextCompareRevisions == ApplyFindPreviousVersion

SpecCompareRevisions == InitCompareRevisions /\ [][NextCompareRevisions]_vars

(* ------------------------------------------------------------------ *)
(* Properties                                                          *)
(* ------------------------------------------------------------------ *)

\* The scan has returned to run(), which read a current version.
ScanReturned ==
    /\ pc \notin {"start", "shallow", "unshallow", "fetch", "enumerate", "scan"}
    /\ currentVersion # Null

\* The run ended and core.setFailed was not called.
EndedOk == pc = "done" /\ ~failed /\ currentVersion # Null

\* The commit at position k carries a version whose text is not `current`.
Differs(list, k, current) == list[k] # Absent /\ list[k] # current

\* The position of the first commit carrying a different version, and
\* Len(list) + 1 when there is none.
FirstDiffering(list, current) ==
    LET ks == {k \in DOMAIN list : Differs(list, k, current)}
    IN  IF ks = {} THEN Len(list) + 1
        ELSE CHOOSE k \in ks : \A j \in ks : k <= j

\* How many commits before position k carry the current version.
SeenBefore(list, k, current) ==
    Cardinality({j \in 1..(k - 1) : list[j] = current})

\* Two version texts parse to the same four integers.
SameVersion(a, b) ==
    LET x == parseFlutterVersion(a)
        y == parseFlutterVersion(b)
    IN  /\ x.major = y.major /\ x.minor = y.minor
        /\ x.patch = y.patch /\ x.build = y.build

\* The version text is `reference` with patch + 1 and build + 1.
IsBumpOf(text, reference) ==
    LET x == parseFlutterVersion(text)
        r == parseFlutterVersion(reference)
    IN  /\ x.major = r.major /\ x.minor = r.minor
        /\ x.patch = r.patch + 1 /\ x.build = r.build + 1

\* C1 (as claimed): after a run that ends without a fatal error, the version
\* in the manifest is not lower, under compareVersions, than any version the
\* history scan parsed before it stopped.
C1_Monotonic ==
    EndedOk =>
        \A i \in DOMAIN foundVersions :
            compareVersions(manifest, foundVersions[i]) # -1

\* C2 (as claimed): when the current version is carried by two or more
\* commits before the first commit with a different version (or before the
\* history ends), the scan returns the current version, and a run that ends
\* without failure has written nextAfter(current), reports updated = true and
\* has created the tag 'v' + the new version.
C2_ReuseCorrects ==
    (/\ EndedOk
     /\ SeenBefore(commits, FirstDiffering(commits, currentVersion),
                   currentVersion) >= 2)
    => /\ previousVersion = currentVersion
       /\ IsBumpOf(manifest, currentVersion)
       /\ outputs.updated = "true"
       /\ outputs.new = manifest
       /\ tagName(manifest) \in tags

\* C3: when the scan returns a reference whose text differs from the current
\* version and compareVersions(current, reference) = -1, a run that ends
\* without failure has written exactly the reference with patch + 1 and
\* build + 1, and reports updated = true with new-version equal to it.
C3_RegressionCorrected ==
    (/\ ScanReturned
     /\ previousVersion # Null
     /\ previousVersion # currentVersion
     /\ compareVersions(currentVersion, previousVersion) = -1)
    => /\ newVersion # Null => IsBumpOf(newVersion, previousVersion)
       /\ pc \notin {"decide", "write"} /\ ~failed => manifest = newVersion
       /\ EndedOk => /\ IsBumpOf(manifest, previousVersion)
                     /\ outputs.updated = "true"
                     /\ outputs.new = manifest

C3_Witness ==
    /\ EndedOk
    /\ currentVersion = V_1_0_0_b1
    /\ previousVersion = V_1_0_9_b9
    /\ manifest = <<"1", ".", "0", ".", "1", "0", "+", "1", "0">>
    /\ outputs.updated = "true"

\* C4: when compareVersions(current, reference) = 1 the run reports
\* updated = false and does nothing else: no manifest write, no commit, no
\* tag creation or deletion, no push.
C4_AdvanceNoOp ==
    (/\ ScanReturned
     /\ previousVersion # Null
     /\ compareVersions(currentVersion, previousVersion) = 1)
    => /\ manifest = currentVersion
       /\ ops = <<>>
       /\ tags = {}
       /\ newVersion = Null
       /\ ~failed
       /\ pc \in {"decide", "done"}
       /\ pc = "done" => outputs.updated = "false" /\ outputs.new = Null

C4_Witness ==
    /\ pc = "done"
    /\ currentVersion = V_1_0_1_b2
    /\ previousVersion = V_1_0_0_b1
    /\ outputs.updated = "false"

\* C5: when the commit list is empty, or no commit carries a version
\* different from the current one and the current version was seen at most
\* once, the run reports previous-version = 'none' and updated = false, keeps
\* the current version and issues no manifest write, commit, tag or push.
C5_FirstBuild ==
    (/\ ScanReturned
     /\ FirstDiffering(commits, currentVersion) = Len(commits) + 1
     /\ SeenBefore(commits, Len(commits) + 1, currentVersion) <= 1)
    => /\ previousVersion = Null
       /\ manifest = currentVersion
       /\ ops = <<>>
       /\ tags = {}
       /\ ~failed
       /\ pc \in {"decide", "done"}
       /\ pc = "done" => /\ outputs.previous = None
                         /\ outputs.updated = "false"
                         /\ outputs.current = currentVersion
                         /\ outputs.new = Null

\* A first build on a history that is not empty: one commit with the current
\* version and one without a version.
C5_Witness ==
    /\ pc = "done"
    /\ Len(commits) = 2
    /\ SeenBefore(commits, 3, currentVersion) = 1
    /\ outputs.previous = None
    /\ outputs.updated = "false"

\* C6 (as claimed): whenever the scan returns a reference and
\* compareVersions(current, reference) is 0 or -1, a run that ends without
\* failure has written nextAfter(reference) and reports updated = true.
C6_NotGreaterCorrects ==
    (/\ EndedOk
     /\ previousVersion # Null
     /\ compareVersions(currentVersion, previousVersion) \in {0, -1})
    => /\ IsBumpOf(manifest, previousVersion)
       /\ outputs.updated = "true"

\* C7: when the current version is seen at most once before the first commit
\* whose version differs from it, the scan stops at that commit and returns
\* that commit's version, whatever the older commits carry.
C7_FirstDifferingWins ==
    (/\ ScanReturned
     /\ FirstDiffering(commits, currentVersion) <= Len(commits)
     /\ SeenBefore(commits, FirstDiffering(commits, currentVersion),
                   currentVersion) <= 1)
    => /\ previousVersion = commits[FirstDiffering(commits, currentVersion)]
       /\ idx = FirstDiffering(commits, currentVersion)

\* The scan stopped with older commits left, one of them carrying a third
\* version.
C7_Witness ==
    /\ ScanReturned
    /\ Len(commits) = 3
    /\ commits[1] = currentVersion
    /\ commits[2] = previousVersion
    /\ previousVersion # currentVersion
    /\ commits[3] \notin {currentVersion, previousVersion, Absent}
    /\ idx = 2

\* C8: when every commit was examined and none carried a version different
\* from the current one, the scan returns the current version if the
\* equal-count is greater than 1 and no reference if it is 0 or 1.
C8_ExhaustedScan ==
    (/\ ScanReturned
     /\ Len(commits) > 0
     /\ FirstDiffering(commits, currentVersion) = Len(commits) + 1)
    => /\ idx = Len(commits)
       /\ sameVersionCount = SeenBefore(commits, Len(commits) + 1, currentVersion)
       /\ sameVersionCount > 1 => previousVersion = currentVersion
       /\ sameVersionCount <= 1 => previousVersion = Null

C8_Witness ==
    /\ ScanReturned
    /\ Len(commits) = 3
    /\ idx = 3
    /\ sameVersionCount = 2
    /\ previousVersion = currentVersion

\* C9 (as claimed): the scan decides 'same version' on the four integers: a
\* version it returns as the differing reference never parses to the same
\* major, minor, patch and build as the current version, and the equal-count
\* counts every examined commit whose version does.
C9_EqualityByValue ==
    ScanReturned =>
        /\ (previousVersion # Null /\ previousVersion # currentVersion)
               => ~SameVersion(previousVersion, currentVersion)
        /\ sameVersionCount =
               Cardinality({j \in 1..idx : /\ commits[j] # Absent
                                           /\ SameVersion(commits[j],
                                                          currentVersion)})

\* The commits that carry a version.
WithVersion(list) == SelectSeq(list, LAMBDA e : e # Absent)

\* C10: commits whose manifest is missing, unreadable, malformed or without
\* a version field never change the result and never fail the scan: the
\* scan's result is its result on the history with those commits removed.
C10_ParseSkip ==
    ScanReturned =>
        previousVersion = findPreviousVersion(WithVersion(commits),
                                              currentVersion)

\* A scan that passed over a commit without a version and then returned a
\* reference.
C10_Witness ==
    /\ ScanReturned
    /\ Len(commits) >= 2
    /\ commits[1] = Absent
    /\ idx >= 2
    /\ previousVersion # Null

(* ------------------------------------------------------------------ *)
(* CommitAndPush: ordering and failures                                *)
(* ------------------------------------------------------------------ *)

\* The commands that modify the remote.
BranchPushes == {"push", "push-fallback", "push-force"}

RemoteOps == BranchPushes \cup {"push-tag-delete", "push-tag"}

\* Every `later` command in ops has one of `earlier` before it.
Precedes(earlier, later) ==
    \A j \in DOMAIN ops :
        ops[j] \in later => \E i \in 1..(j - 1) : ops[i] \in earlier

\* The bump commit and the new tag exist locally.
TagOnBump == bump = "committed" /\ tagName(newVersion) \in tags

\* C11 (as claimed): the manifest write completes before the commit is
\* attempted, the commit before the tag is created, the tag creation before
\* any push to the remote, and the branch push before the tag push; no
\* command that modifies the remote is issued before the local tag exists.
C11_Ordering ==
    /\ Precedes({"write"}, {"commit"})
    /\ (Issued("commit") => manifest = newVersion)
    /\ Precedes({"commit"}, {"tag-create"})
    /\ Precedes({"tag-create"}, RemoteOps)
    /\ (\E j \in DOMAIN ops : ops[j] \in RemoteOps) => TagOnBump
    /\ Precedes(BranchPushes, {"push-tag"})

\* C11 (amended): the same order, except that the deletion of a remote tag
\* of the same name is issued after the commit and before the tag is
\* created; every other command that modifies the remote is issued after
\* the local tag exists on the bump commit.
C11_OrderingAmended ==
    /\ Precedes({"write"}, {"commit"})
    /\ (Issued("commit") => manifest = newVersion)
    /\ Precedes({"commit"}, {"tag-create", "tag-delete", "push-tag-delete"})
    /\ (Issued("tag-delete") => bump = "committed")
    /\ Precedes({"push-tag-delete"}, {"tag-create"})
    /\ Precedes({"tag-create"}, BranchPushes \cup {"push-tag"})
    /\ (\E j \in DOMAIN ops : ops[j] \in BranchPushes \cup {"push-tag"})
           => TagOnBump
    /\ Precedes(BranchPushes, {"push-tag"})

\* A corrected run that wrote, committed, tagged and pushed branch and tag.
C11_Witness ==
    /\ pc = "done"
    /\ ~failed
    /\ ops = <<"write", "config", "add", "commit", "tag-delete",
               "push-tag-delete", "tag-create", "push", "push-tag">>
    /\ pushed
    /\ tagPushed

\* git add was issued and staged nothing.
StagingFailed == Issued("add") /\ bump = "none"

\* git commit was issued and made no commit.
CommitFailed == Issued("commit") /\ bump # "committed"

TagOps == {"tag-delete", "push-tag-delete", "tag-create"}

\* C12 (as claimed): if staging or committing the manifest fails, no tag is
\* created or deleted and nothing is pushed, and the run ends as failed, in
\* every revision of commitAndPush.
C12_CommitFailureStops ==
    (StagingFailed \/ CommitFailed) =>
        /\ \A i \in DOMAIN ops : ops[i] \notin TagOps \cup RemoteOps
        /\ tags = {}
        /\ pc = "done" => failed

\* C13 (as claimed): a failure to push the tag, after the branch push
\* succeeded, does not fail the run: the run ends with updated = true and
\* new-version set.
C13_TagPushFailureTolerated ==
    (pushed /\ Issued("push-tag") /\ ~tagPushed) =>
        /\ ~failed
        /\ pc = "done" =>
              outputs.updated = "true" /\ outputs.new = newVersion

\* The number of branch pushes issued.
BranchPushCount == Cardinality({i \in DOMAIN ops : ops[i] \in BranchPushes})

\* C14 (as claimed): when the first branch push fails, exactly one fallback
\* push is attempted; the run goes on if the fallback succeeds and is failed
\* only after both attempts failed; at most two branch pushes are attempted
\* and none is a forced push.
C14_PushRetry ==
    /\ BranchPushCount <= 2
    /\ ~Issued("push-force")
    /\ \A j \in DOMAIN ops :
          ops[j] = "push-fallback" => (j > 1 /\ ops[j - 1] = "push")
    /\ (Issued("push") /\ ~pushed /\ ~Issued("push-fallback")) =>
          (pc = "pushfallback" /\ ~failed)
    /\ (pushed /\ ~Issued("push-tag")) => (pc = "pushtag" /\ ~failed)
    /\ (failed /\ Issued("push") /\ ~Issued("push-tag")) =>
          (Issued("push-fallback") /\ ~pushed)

\* Every branch push of the revision was attempted and failed.
AllPushesFailed ==
    LET strategies == PushStrategies(revision)
    IN  Issued(strategies[Len(strategies)]) /\ ~pushed

\* C15: when every branch push attempt fails, the run ends as failed, the
\* tag push is never attempted, and the manifest still holds the new version
\* and the local bump commit still exists.
C15_NoRollback ==
    AllPushesFailed =>
        /\ pc = "done"
        /\ failed
        /\ ~Issued("push-tag")
        /\ manifest = newVersion
        /\ bump = "committed"
        /\ tagName(newVersion) \in tags

\* A run whose push and fallback push both failed.
C15_Witness ==
    /\ pc = "done"
    /\ failed
    /\ ops = <<"write", "config", "add", "commit", "tag-delete",
               "push-tag-delete", "tag-create", "push", "push-fallback">>
    /\ ~pushed
    /\ manifest = newVersion

\* C16: a missing or unreadable manifest, or one without a version field, is
\* fatal: the run is failed before any history-provider command is issued,
\* it writes nothing and sets no version-updated output.
C16_ManifestFatal ==
    (pc # "start" /\ (manifest = Absent \/ manifest = <<>>)) =>
        /\ pc = "done"
        /\ failed
        /\ calls = <<>>
        /\ ops = <<>>
        /\ outputs.updated = "unset"
        /\ outputs.new = Null

\* A run that found no version in the manifest and ended.
C16_Witness ==
    /\ pc = "done"
    /\ manifest = Absent
    /\ failed
    /\ calls = <<>>

\* C17: history-provider failures never fail the run: whichever of its
\* commands fails, findPreviousVersion goes on to enumerate and scan the
\* commits it could read and returns normally, and the run ends as first
\* build with updated = false when none could be read.
C17_ProviderFailuresTolerated ==
    /\ pc \in {"shallow", "unshallow", "fetch", "enumerate", "scan", "decide"}
          => ~failed
    /\ ScanReturned =>
          /\ Called("is-shallow") /\ Called("fetch") /\ Called("rev-list")
          /\ commits \in {<<>>, Take(history, MaxCount)}
          /\ idx < Len(commits) => previousVersion # Null
          /\ previousVersion = findPreviousVersion(commits, currentVersion)
    /\ (ScanReturned /\ commits = <<>> /\ pc = "done") =>
          /\ ~failed
          /\ outputs.updated = "false"
          /\ outputs.previous = None
          /\ ops = <<>>

\* A run whose rev-list failed on a branch that has commits, after an
\* unshallow: it read no history and ended as first build.
C17_Witness ==
    /\ EndedOk
    /\ Called("unshallow")
    /\ Len(history) >= 2
    /\ commits = <<>>
    /\ outputs.updated = "false"
    /\ outputs.previous = None

\* C18 (as claimed): a tag named v<newVersion> that already exists (locally,
\* remotely or both) never fails a corrected run: when no command fails for
\* another reason, the run ends without failure, the old tag is gone from
\* both sides and the new tag is on the bump commit and pushed.
C18_ExistingTagReplaced ==
    (pc = "done" /\ oldTag.seen /\ ~gitFault) =>
        /\ ~failed
        /\ ~oldTag.local
        /\ ~oldTag.remote
        /\ TagOnBump
        /\ tagPushed

(* ------------------------------------------------------------------ *)
(* VersionCodec: order and next version                                *)
(* ------------------------------------------------------------------ *)

\* The texts that parse: parseFlutterVersion returns no null for them.
Parses(text) == parseFlutterVersion(text) # NullVersion

\* The four integers of a text are those of another.
SameNumbers(x, y) ==
    LET p == parseFlutterVersion(x)
        q == parseFlutterVersion(y)
    IN  /\ p.major = q.major
        /\ p.minor = q.minor
        /\ p.patch = q.patch
        /\ p.build = q.build

\* major.minor.patch precedence first, then the build.
Precedence(x, y) ==
    LET p == parseFlutterVersion(x)
        q == parseFlutterVersion(y)
    IN  IF p.major # q.major THEN Sign(p.major, q.major)
        ELSE IF p.minor # q.minor THEN Sign(p.minor, q.minor)
        ELSE IF p.patch # q.patch THEN Sign(p.patch, q.patch)
        ELSE Sign(p.build, q.build)

\* C19 (as claimed): compareVersions is a total order on versions:
\* compare(v, v) = 0, compare(a, b) = -compare(b, a), it is transitive, it
\* returns 0 only when major, minor, patch and build are all equal, and the
\* base decides before the build.
C19_TotalOrder ==
    (pc \in {"compared", "generated"} /\ Parses(probe.a) /\ Parses(probe.b)) =>
        LET ab == probe.cmp[1]
            ba == probe.cmp[2]
        IN  /\ compareVersions(probe.a, probe.a) = 0
            /\ ab \in {-1, 0, 1}
            /\ ba = -ab
            /\ ab = 0 => SameNumbers(probe.a, probe.b)
            /\ ab = Precedence(probe.a, probe.b)
            /\ \A c \in {t \in CodecTexts : Parses(t)} :
                  LET bc == compareVersions(probe.b, c)
                      ac == compareVersions(probe.a, c)
                  IN  (ab \in {-1, 0} /\ bc \in {-1, 0}) =>
                          /\ ac \in {-1, 0}
                          /\ ac = 0 => (ab = 0 /\ bc = 0)

\* C20 (as claimed): for every version v that parses,
\* compareVersions(generateNextVersion(v), v) = 1.
C20_NextGreater ==
    (pc = "generated" /\ Parses(probe.a)) => probe.nextCmp = <<1>>

\* JavaScript a === b on numbers: false when either is NaN.
NumEq(a, b) == a # NaN /\ b # NaN /\ a = b

Bootstrap == <<"1", ".", "0", ".", "0", "+", "1">>

\* C21 (as claimed): for every input that parses, the text generateNextVersion
\* returns has the major and minor of the input, its patch plus one and its
\* build plus one; an input without a build suffix yields build 1.
C21_PatchAndBuildPlusOne ==
    (pc = "generated" /\ Parses(probe.a)) =>
        LET p == probe.parsed[1]
            q == parseFlutterVersion(probe.next)
        IN  /\ NumEq(q.major, p.major)
            /\ NumEq(q.minor, p.minor)
            /\ NumEq(q.patch, p.patch + 1)
            /\ NumEq(q.build, PlusOne(p.build))
            /\ Len(Split(probe.a, "+")) = 1 => q.build = 1

\* Text of the form major.minor.patch with an optional +build, each part a
\* run of digits.
IsVersionText(text) ==
    LET AllDigits(s) == Len(s) >= 1 /\ \A i \in DOMAIN s : IsDigit(s[i])
        parts == Split(text, "+")
        ids   == Split(parts[1], ".")
    IN  /\ Len(parts) \in {1, 2}
        /\ Len(ids) = 3
        /\ \A i \in 1..3 : AllDigits(ids[i])
        /\ Len(parts) = 2 => AllDigits(parts[2])

C23_RoundTrip ==
    pc = "parsedback" =>
        LET p == probe.parsed[1]
        IN  /\ p.major = probe.v.major
            /\ p.minor = probe.v.minor
            /\ p.patch = probe.v.patch
            /\ p.build = probe.v.build
            /\ p.base \o <<"+">> \o NatToText(probe.v.build) = probe.text
            /\ Split(p.base, ".") = <<NatToText(probe.v.major),
                                       NatToText(probe.v.minor),
                                       NatToText(probe.v.patch)>>

\* A version with a component of two digits and distinct components has
\* been written and parsed back.
C23_Witness ==
    /\ pc = "parsedback"
    /\ probe.v = [major |-> 10, minor |-> 0, patch |-> 9, build |-> 7]
    /\ probe.text = <<"1", "0", ".", "0", ".", "9", "+", "7">>
    /\ probe.parsed[1].major = 10
    /\ probe.parsed[1].build = 7

\* C24 (as claimed): for every non-empty text parseFlutterVersion returns a
\* version whose major, minor, patch and build are all non-negative integers;
\* a missing or non-numeric component, the build suffix included, is 0, and a
\* text without +build has build 0.
C24_ComponentsAreNumbers ==
    (pc \in {"parsed", "compared", "generated"}
     /\ probe.a # Null /\ probe.a # <<>>) =>
        LET p     == probe.parsed[1]
            parts == Split(probe.a, "+")
        IN  /\ p # NullVersion
            /\ \A n \in {p.major, p.minor, p.patch, p.build} : n \in Nat
            /\ Len(parts) = 1 => p.build = 0
            /\ (Len(parts) > 1 /\ ParseInt(parts[2]) = NaN) => p.build = 0

\* C25: parseFlutterVersion returns null, never a zero version, for a missing
\* or empty text; compareVersions returns 0 and generateNextVersion returns
\* 1.0.0+1 on it, neither throws, whatever the other text is.
C25_NullIsNoVersion ==
    (pc = "generated" /\ (probe.a = Null \/ probe.a = <<>>)) =>
        /\ probe.parsed[1] = NullVersion
        /\ probe.cmp = <<0, 0>>
        /\ probe.next = Bootstrap

\* The missing text has been parsed, compared with a text semver.compare
\* throws on, and bumped.
C25_Witness ==
    /\ pc = "generated"
    /\ probe.a = Null
    /\ probe.b = V_01_0_0_b1
    /\ probe.parsed = <<NullVersion, parseFlutterVersion(V_01_0_0_b1)>>
    /\ probe.cmp = <<0, 0>>
    /\ compareVersions(V_01_0_0_b1, V_01_0_0_b1) = Throw

(* ------------------------------------------------------------------ *)
(* The manifest, the outputs, the commit message, the scan's bound     *)
(* ------------------------------------------------------------------ *)

\* The top-level fields of the lines of a pubspec.yaml, as key/value pairs.
Fields(lines) == {lines[i] : i \in {j \in DOMAIN lines : lines[j].key # "#"}}

\* C26: after updatePubspecVersion has written the corrected version, every
\* other top-level field of the manifest has the key and value it had
\* before; a run that writes no correction leaves the whole manifest as it
\* was.
C26_OnlyVersionChanges ==
    /\ (Issued("write") /\ ~failed) =>
           /\ manifest = newVersion
           /\ Fields(others) = Fields(original)
    /\ ~Issued("write") =>
           /\ manifest = currentVersion
           /\ others = original

\* A manifest with a comment and a field has been rewritten: the field is
\* kept, the text of the file is not.
C26_Witness ==
    /\ pc = "config"
    /\ original = <<Comment, NameField>>
    /\ others = <<NameField>>
    /\ manifest = newVersion
    /\ manifest # currentVersion

\* C27: at the end of every run that does not fail, the current-version
\* output is the version the manifest then holds; when version-updated is
\* "true" it is also new-version, and when version-updated is "false" it is
\* the version read at the start and new-version is not set.
C27_OutputConsistency ==
    EndedOk =>
        /\ outputs.current = manifest
        /\ outputs.updated = "true" => outputs.current = outputs.new
        /\ outputs.updated = "false" =>
               /\ outputs.current = currentVersion
               /\ outputs.new = Null

\* A corrected run has ended: the manifest holds the new version and the
\* outputs name it.
C27_Witness ==
    /\ EndedOk
    /\ outputs.updated = "true"
    /\ manifest = newVersion
    /\ manifest # currentVersion
    /\ outputs.current = manifest
    /\ bump = "committed"

\* A piece of the commit message is the version.
Contains(text, version) == \E i \in DOMAIN text : text[i] = version

\* C28 (as claimed): every commit a corrected run creates carries a message
\* that contains both the old (reference) version and the new version,
\* whether or not a commit-message input was given.
C28_MessageNamesVersions ==
    bump = "committed" =>
        /\ Contains(message, newVersion)
        /\ Contains(message, ReferenceVersion)

\* How many commits the scan has read with git show.
ShowCount == Cardinality({i \in DOMAIN calls : calls[i] = "show"})

\* Where the scan stops on a list of commits.
StopsAt(list, current) ==
    IF FirstDiffering(list, current) <= Len(list)
    THEN FirstDiffering(list, current) ELSE Len(list)

\* C29: the scan reads the manifest of at most MaxCount commits, newest
\* first, each once; every step of the loop takes the next commit; it stops
\* at the first commit with a different version, passing none; and
\* findPreviousVersion returns, for every history.
C29_Bounded ==
    /\ Len(commits) <= MaxCount
    /\ commits = SubSeq(history, 1, Len(commits))
    /\ idx <= StopsAt(commits, currentVersion)
    /\ ShowCount = idx
    /\ pc = "decide" => idx = StopsAt(commits, currentVersion)

C29_Steps ==
    (pc = "scan" /\ pc' = "scan") => (idx' = idx + 1 /\ commits' = commits)

C29_ScanTerminates ==
    /\ []C29_Bounded
    /\ [][C29_Steps]_vars
    /\ <>(pc = "decide")

\* The scan of a history longer than rev-list returns has come back: it read
\* MaxCount commits and never saw the version of the commit after them.
C29_Witness ==
    /\ pc = "decide"
    /\ history = LongHistory
    /\ Len(commits) = MaxCount
    /\ idx = MaxCount
    /\ ShowCount = MaxCount
    /\ previousVersion = Null

\* The write of the corrected version did not take effect.
WriteFailed == Issued("write") /\ manifest # newVersion

\* C30 (as claimed): when writing the corrected version to the manifest
\* fails, the run is marked failed, the manifest holds its original content,
\* no commit, tag or push is attempted, and version-updated is not "true".
C30_WriteFailure ==
    WriteFailed =>
        /\ failed
        /\ manifest = currentVersion
        /\ others = original
        /\ ops = <<"write">>
        /\ message = Null /\ tags = {} /\ ~pushed /\ ~tagPushed
        /\ outputs.updated # "true"

(* ------------------------------------------------------------------ *)
(* Fallbacks of the history provider                                   *)
(* ------------------------------------------------------------------ *)

\* C31 (as claimed): when git rev-list origin/<branch> fails, the scan
\* enumerates the commits of HEAD instead and scans them; when git fetch
\* origin <branch> fails, git fetch origin is attempted before the scan.
C31_Fallbacks ==
    /\ ("fetch" \in faults /\ pc \in {"enumerate", "scan", "decide"}) =>
           Called("fetch-all")
    /\ ("rev-list" \in faults /\ pc \in {"scan", "decide"}) =>
           /\ Called("rev-list-head")
           /\ "rev-list-head" \notin faults =>
                  commits = Take(history, MaxCount)

(* ------------------------------------------------------------------ *)
(* The local script and the tag-based tool                             *)
(* ------------------------------------------------------------------ *)

\* A component of the current version exceeds that of the previous one.
BaseExceeds(p, q) ==
    p.major > q.major \/ p.minor > q.minor \/ p.patch > q.patch

\* C32 (as claimed): incrementVersion(current, previous) of the local
\* script: when a previous version is given and a component of current's
\* base exceeds that of previous, the result has current's major, minor and
\* patch and its build plus one; otherwise it has patch plus one and build
\* plus one; a missing or empty current yields 1.0.0+1.
C32_IncrementVersion ==
    pc = "incremented" =>
        LET p == probe.parsed[1]
            q == probe.parsed[2]
            r == parseFlutterVersion(probe.inc)
        IN  IF p = NullVersion THEN probe.inc = Bootstrap
            ELSE /\ NumEq(r.major, p.major)
                 /\ NumEq(r.minor, p.minor)
                 /\ NumEq(r.build, PlusOne(p.build))
                 /\ IF q # NullVersion /\ BaseExceeds(p, q)
                    THEN NumEq(r.patch, p.patch)
                    ELSE NumEq(r.patch, p.patch + 1)

\* The four numbers of a parsed version.
Numbers(v) == <<v.major, v.minor, v.patch, v.build>>

\* C33 (as claimed): generateNextVersion(v, type) of the tag-based tool:
\* major yields (major+1).0.0+1, minor yields major.(minor+1).0+1, build
\* yields major.minor.patch+(build+1), patch and any unknown type yield
\* major.minor.(patch+1)+1; for every type the result is strictly greater
\* than v under compareVersions.
C33_BumpTypes ==
    (pc = "bumped" /\ Parses(probe.a)) =>
        LET p == probe.parsed[1]
            r == parseFlutterVersion(probe.bumped)
            type == toLowerCase(probe.type)
        IN  /\ \A n \in {r.major, r.minor, r.patch, r.build} : n # NaN
            /\ Numbers(r) =
                  CASE type = "major" -> <<p.major + 1, 0, 0, 1>>
                    [] type = "minor" -> <<p.major, p.minor + 1, 0, 1>>
                    [] type = "build" ->
                           <<p.major, p.minor, p.patch, p.build + 1>>
                    [] OTHER -> <<p.major, p.minor, p.patch + 1, 1>>
            /\ probe.bumpedCmp = <<1>>

(* ------------------------------------------------------------------ *)
(* The version-updated output                                          *)
(* ------------------------------------------------------------------ *)

\* C34 (as claimed): every run that reads a current version and does not end
\* as failed sets version-updated to one of "true" and "false" before it
\* ends.
C34_UpdatedIsSet ==
    EndedOk => outputs.updated \in {"true", "false"}

\* C35 (as claimed): a run ends with version-updated "true" only if a commit
\* with the new manifest version was created and a push of the branch
\* succeeded.
C35_UpdatedMeansPersisted ==
    (pc = "done" /\ outputs.updated = "true") =>
        /\ bump = "committed"
        /\ manifest = newVersion
        /\ pushed

\* C36: a run started after a corrected run that committed and pushed, on
\* the history extended by the bump commit and with the manifest holding the
\* new version, updates nothing: it does not fail, issues no write, commit,
\* tag or push, leaves the manifest alone and ends with version-updated
\* "false", after a reuse correction and after a regression correction.
C36_Convergence ==
    prior # "none" =>
        /\ prior \in {"reuse", "lower"}
        /\ ~failed
        /\ ops = <<>>
        /\ manifest = history[1]
        /\ bump = "none" /\ ~pushed /\ ~tagPushed /\ message = Null
        /\ pc = "done" => outputs.updated = "false"

\* The run after a regression correction has scanned past the bump commit
\* and ended without an update.
C36_Witness ==
    /\ prior = "lower"
    /\ pc = "done"
    /\ outputs.updated = "false"
    /\ outputs.previous \notin {None, Null}
    /\ idx = 2
    /\ commits[1] = currentVersion
    /\ previousVersion = commits[2]
    /\ ops = <<>>

(* ------------------------------------------------------------------ *)
(* The revisions of findPreviousVersion                                *)
(* ------------------------------------------------------------------ *)

\* C37 (as claimed): every revision of findPreviousVersion returns the
\* current version when it was observed in two or more commits before the
\* first differing version, and all revisions return the same reference for
\* the same history.
C37_SameTieBreak ==
    pc = "referenced" =>
        /\ SeenBefore(history, FirstDiffering(history, currentVersion),
                      currentVersion) >= 2
              => \A rev \in Revisions : probe.ref[rev] = currentVersion
        /\ \A r1, r2 \in Revisions : probe.ref[r1] = probe.ref[r2]

(* ------------------------------------------------------------------ *)
(* The code after the scan loop                                        *)
(* ------------------------------------------------------------------ *)

\* C38: when the scan loop ends without returning, every entry recorded in
\* foundVersions equals the current version, so the search after the loop
\* for a different version finds none, and findPreviousVersion returns null
\* whenever the count of sightings of the current version is at most 1.
C38_PostLoopFindsNothing ==
    [][(pc = "scan" /\ idx = Len(commits) /\ pc' = "decide") =>
          /\ \A i \in DOMAIN foundVersions :
                 foundVersions[i] = currentVersion
          /\ sameVersionCount <= 1 => previousVersion' = Null
          /\ sameVersionCount <= 1 =>
                 AfterLoop(ScanState, currentVersion) = Null]_vars

\* The loop ran through a non-empty commit list with one sighting of the
\* current version and no other version, and null was returned.
C38_Witness ==
    /\ pc = "decide"
    /\ Len(commits) >= 2
    /\ idx = Len(commits)
    /\ sameVersionCount = 1
    /\ Len(foundVersions) = 1
    /\ foundVersions[1] = currentVersion
    /\ previousVersion = Null

====
